---------------------------- MODULE Spec2Model ----------------------------
(***************************************************************************)
(* Model of src/src/task-time-calculator.tsx: the line parser              *)
(* (parseTimeData), the critical-value table (getTCritical), the log-space *)
(* estimator (the useMemo value calculateCI) and the component state that  *)
(* the two event handlers drive.                                           *)
(*                                                                         *)
(* Texts are sequences of one-character strings.  JavaScript numbers are   *)
(* modelled as records: a finite value is a fixed-point integer counting   *)
(* 1/SCALE units, and NaN, +Infinity and -Infinity are separate values     *)
(* with the IEEE-754 rules for arithmetic and comparison.  A finite result *)
(* whose magnitude exceeds FMAX units becomes an infinity, as a double     *)
(* does above 1.8e308, and digits below 1/SCALE are dropped, as a double   *)
(* drops those below its 53 bits.  The input texts stay within three       *)
(* decimals and well below FMAX, apart from "Infinity" and "1e999", which  *)
(* are infinite as doubles too.                                            *)
(***************************************************************************)
EXTENDS Integers, Sequences, FiniteSets, TLC

VARIABLES
    rawInput,         \* useState('') line 5: the text of the textarea
    parsedTimes,      \* useState([]) line 6: the Sample
    confidenceLevel,  \* useState(95) line 7
    memoCI,           \* the value useMemo holds (calculateCI, lines 73-123)
    pc,               \* position of the pure-function harnesses
    dfIn, levelIn,    \* arguments handed to getTCritical by its harness
    tOut,             \* [value, fallback] returned to the harness
    snap              \* history: one earlier (values, level, result) triple

vars == <<rawInput, parsedTimes, confidenceLevel, memoCI, pc, dfIn, levelIn, tOut, snap>>

(***************************************************************************)
(* Numbers                                                                 *)
(***************************************************************************)
SCALE == 1000
FMAX == 2000000

NaN == [k |-> "nan", v |-> 0]
PInf == [k |-> "inf", v |-> 1]
NInf == [k |-> "inf", v |-> -1]
Fin(x) == [k |-> "fin", v |-> x]

IsNaN(a) == a.k = "nan"
IsInf(a) == a.k = "inf"
IsFin(a) == a.k = "fin"

Abs(x) == IF x < 0 THEN -x ELSE x
Sgn(x) == IF x < 0 THEN -1 ELSE IF x > 0 THEN 1 ELSE 0
InfOf(s) == IF s < 0 THEN NInf ELSE PInf

\* Rounding of an exact result into the representable range.
Rnd(x) == IF x > FMAX THEN PInf ELSE IF x < -FMAX THEN NInf ELSE Fin(x)

FInt(n) == Rnd(n * SCALE)

FNeg(a) == IF IsNaN(a) THEN NaN ELSE IF IsInf(a) THEN InfOf(-a.v) ELSE Fin(-a.v)

FAdd(a, b) ==
    IF IsNaN(a) \/ IsNaN(b) THEN NaN
    ELSE IF IsInf(a) /\ IsInf(b) THEN (IF a.v = b.v THEN a ELSE NaN)
    ELSE IF IsInf(a) THEN a
    ELSE IF IsInf(b) THEN b
    ELSE Rnd(a.v + b.v)

FSub(a, b) == FAdd(a, FNeg(b))

FMul(a, b) ==
    IF IsNaN(a) \/ IsNaN(b) THEN NaN
    ELSE IF IsInf(a) \/ IsInf(b)
         THEN (IF Sgn(a.v) * Sgn(b.v) = 0 THEN NaN ELSE InfOf(Sgn(a.v) * Sgn(b.v)))
    ELSE IF a.v = 0 \/ b.v = 0 THEN Fin(0)
    ELSE IF Abs(b.v) > (FMAX * SCALE) \div Abs(a.v) THEN InfOf(Sgn(a.v) * Sgn(b.v))
    ELSE Rnd((a.v * b.v) \div SCALE)

FDiv(a, b) ==
    IF IsNaN(a) \/ IsNaN(b) THEN NaN
    ELSE IF IsInf(a) /\ IsInf(b) THEN NaN
    ELSE IF IsInf(a) THEN InfOf(a.v * (IF b.v < 0 THEN -1 ELSE 1))
    ELSE IF IsInf(b) THEN Fin(0)
    ELSE IF b.v = 0 THEN (IF a.v = 0 THEN NaN ELSE InfOf(Sgn(a.v)))
    ELSE IF b.v > 0 THEN Rnd((a.v * SCALE) \div b.v)
    ELSE Rnd(((-a.v) * SCALE) \div (-b.v))

\* a < b, a <= b, a > b: false whenever an operand is NaN.
FLt(a, b) ==
    /\ ~IsNaN(a) /\ ~IsNaN(b)
    /\ IF IsInf(a) /\ IsInf(b) THEN a.v < b.v
       ELSE IF IsInf(a) THEN a.v < 0
       ELSE IF IsInf(b) THEN b.v > 0
       ELSE a.v < b.v
FLe(a, b) == ~IsNaN(a) /\ ~IsNaN(b) /\ (a = b \/ FLt(a, b))
FGt(a, b) == FLt(b, a)

\* Largest r in lo..hi with r * r <= x (lo * lo <= x assumed).
RECURSIVE IsqrtIn(_, _, _)
IsqrtIn(x, lo, hi) ==
    IF lo >= hi THEN lo
    ELSE LET mid == (lo + hi + 1) \div 2
         IN IF mid * mid <= x THEN IsqrtIn(x, mid, hi) ELSE IsqrtIn(x, lo, mid - 1)
Isqrt(x) == IsqrtIn(x, 0, 46340)

\* Math.sqrt
FSqrt(a) ==
    IF IsNaN(a) THEN NaN
    ELSE IF IsInf(a) THEN (IF a.v > 0 THEN PInf ELSE NaN)
    ELSE IF a.v < 0 THEN NaN
    ELSE Fin(Isqrt(a.v * SCALE))

\* Math.pow(a, 2)
FSquare(a) == FMul(a, a)

LN2 == 693

\* v = m * 2^k with SCALE <= m < 2 * SCALE, for v > 0; k is counted in e.
RECURSIVE Frexp(_, _)
Frexp(v, e) ==
    IF v >= 2 * SCALE THEN Frexp(v \div 2, e + 1)
    ELSE IF v < SCALE THEN Frexp(v * 2, e - 1)
    ELSE [m |-> v, e |-> e]

\* ln(m / SCALE) for SCALE <= m < 2 * SCALE, by 2 * atanh((m - 1) / (m + 1)).
LnMantissa(m) ==
    LET y == ((m - SCALE) * SCALE) \div (m + SCALE)
        y2 == (y * y) \div SCALE
        y3 == (y * y2) \div SCALE
        y5 == (y3 * y2) \div SCALE
        y7 == (y5 * y2) \div SCALE
    IN 2 * (y + y3 \div 3 + y5 \div 5 + y7 \div 7)

\* Math.log
FLog(a) ==
    IF IsNaN(a) THEN NaN
    ELSE IF IsInf(a) THEN (IF a.v > 0 THEN PInf ELSE NaN)
    ELSE IF a.v < 0 THEN NaN
    ELSE IF a.v = 0 THEN NInf
    ELSE LET f == Frexp(a.v, 0) IN Fin(f.e * LN2 + LnMantissa(f.m))

\* exp(r / SCALE) for 0 <= r < LN2, by its Taylor series.
ExpSmall(r) ==
    LET t2 == (r * r) \div (2 * SCALE)
        t3 == (t2 * r) \div (3 * SCALE)
        t4 == (t3 * r) \div (4 * SCALE)
        t5 == (t4 * r) \div (5 * SCALE)
        t6 == (t5 * r) \div (6 * SCALE)
    IN SCALE + r + t2 + t3 + t4 + t5 + t6

\* m * 2^e, rounded into range.
RECURSIVE Ldexp(_, _)
Ldexp(m, e) ==
    IF e = 0 \/ m = 0 THEN Rnd(m)
    ELSE IF e > 0 THEN (IF m > FMAX THEN PInf ELSE Ldexp(m * 2, e - 1))
    ELSE Ldexp(m \div 2, e + 1)

\* Math.exp
FExp(a) ==
    IF IsNaN(a) THEN NaN
    ELSE IF IsInf(a) THEN (IF a.v > 0 THEN PInf ELSE Fin(0))
    ELSE Ldexp(ExpSmall(a.v % LN2), a.v \div LN2)

(***************************************************************************)
(* Strings                                                                 *)
(***************************************************************************)
NL == "\n"
WhiteSpace == {" ", "\t", "\r", NL}
Digits == {"0", "1", "2", "3", "4", "5", "6", "7", "8", "9"}

DigitVal(c) ==
    CASE c = "0" -> 0 [] c = "1" -> 1 [] c = "2" -> 2 [] c = "3" -> 3 [] c = "4" -> 4
      [] c = "5" -> 5 [] c = "6" -> 6 [] c = "7" -> 7 [] c = "8" -> 8 [] c = "9" -> 9

\* s.slice(i - 1) with 1-based i
Drop(s, i) == IF i > Len(s) THEN <<>> ELSE SubSeq(s, i, Len(s))

RECURSIVE TrimStart(_)
TrimStart(s) ==
    IF s # <<>> /\ Head(s) \in WhiteSpace THEN TrimStart(Tail(s)) ELSE s

RECURSIVE TrimEnd(_)
TrimEnd(s) ==
    IF s # <<>> /\ s[Len(s)] \in WhiteSpace THEN TrimEnd(SubSeq(s, 1, Len(s) - 1)) ELSE s

\* String.prototype.trim
Trim(s) == TrimEnd(TrimStart(s))

\* input.split('\n'); acc is the line being read.
RECURSIVE SplitFrom(_, _)
SplitFrom(s, acc) ==
    IF s = <<>> THEN <<acc>>
    ELSE IF Head(s) = NL THEN <<acc>> \o SplitFrom(Tail(s), <<>>)
    ELSE SplitFrom(Tail(s), Append(acc, Head(s)))
Split(s) == SplitFrom(s, <<>>)

StartsWith(s, p) == Len(s) >= Len(p) /\ SubSeq(s, 1, Len(p)) = p

InfinityLit == <<"I", "n", "f", "i", "n", "i", "t", "y">>

\* Number of leading decimal digits of s.
RECURSIVE DigitRun(_)
DigitRun(s) ==
    IF s # <<>> /\ Head(s) \in Digits THEN 1 + DigitRun(Tail(s)) ELSE 0

\* Value, in units, of the digit string s read as an integer part.
RECURSIVE IntUnits(_, _)
IntUnits(s, acc) ==
    IF s = <<>> \/ IsInf(acc) THEN acc
    ELSE IntUnits(Tail(s), FAdd(FMul(acc, FInt(10)), FInt(DigitVal(Head(s)))))

\* Value, in units, of the digit string s read as a fraction; w is the weight
\* of its first digit.
RECURSIVE FracUnits(_, _)
FracUnits(s, w) ==
    IF s = <<>> \/ w = 0 THEN 0
    ELSE DigitVal(Head(s)) * w + FracUnits(Tail(s), w \div 10)

\* The decimal exponent written by the digit string s, capped at 999.
RECURSIVE ExpDigits(_, _)
ExpDigits(s, acc) ==
    IF s = <<>> THEN acc
    ELSE ExpDigits(Tail(s), IF acc > 99 THEN 999 ELSE acc * 10 + DigitVal(Head(s)))

\* a * 10^e
RECURSIVE Scale10(_, _)
Scale10(a, e) ==
    IF e = 0 \/ IsInf(a) \/ a = Fin(0) THEN a
    ELSE IF e > 0 THEN Scale10(FMul(a, FInt(10)), e - 1)
    ELSE Scale10(FDiv(a, FInt(10)), e + 1)

\* The exponent part at the head of s ("e", optional sign, digits), or 0
\* when s does not start with a complete one.
ExponentOf(s) ==
    IF s = <<>> \/ Head(s) \notin {"e", "E"} THEN 0
    ELSE LET r == Tail(s)
             signed == r # <<>> /\ Head(r) \in {"+", "-"}
             d == IF signed THEN Tail(r) ELSE r
             n == DigitRun(d)
         IN IF n = 0 THEN 0
            ELSE (IF signed /\ Head(r) = "-" THEN -1 ELSE 1) * ExpDigits(SubSeq(d, 1, n), 0)

\* An unsigned StrDecimalLiteral at the head of s, NaN when there is none.
UnsignedLiteral(s) ==
    IF StartsWith(s, InfinityLit) THEN PInf
    ELSE LET ni == DigitRun(s)
             afterInt == Drop(s, ni + 1)
             dot == afterInt # <<>> /\ Head(afterInt) = "."
             nf == IF dot THEN DigitRun(Tail(afterInt)) ELSE 0
         IN IF ni = 0 /\ nf = 0 THEN NaN
            ELSE LET ip == IntUnits(SubSeq(s, 1, ni), Fin(0))
                     fp == IF nf = 0 THEN 0
                           ELSE FracUnits(SubSeq(Tail(afterInt), 1, nf), SCALE \div 10)
                     rest == IF dot THEN Drop(Tail(afterInt), nf + 1) ELSE afterInt
                 IN Scale10(FAdd(ip, Fin(fp)), ExponentOf(rest))

\* parseFloat: the longest prefix of the trimmed string that is a
\* StrDecimalLiteral, NaN when there is none.
parseFloat(str) ==
    LET s == TrimStart(str)
    IN IF s = <<>> THEN NaN
       ELSE IF Head(s) = "-" THEN FNeg(UnsignedLiteral(Tail(s)))
       ELSE IF Head(s) = "+" THEN UnsignedLiteral(Tail(s))
       ELSE UnsignedLiteral(s)

(***************************************************************************)
(* parseTimeData (lines 10-34)                                             *)
(***************************************************************************)
\* The test of line 23.
Accepts(value) == ~IsNaN(value) /\ FGt(value, Fin(0))

\* Faulty variant: the forEach index stored as it is, 0-based.
ObservationZeroBased(value, index) == [raw |-> value, lineNumber |-> index]

\* The object pushed at lines 24-28 (formatted is display only).
Observation(value, index) == [raw |-> value, lineNumber |-> index + 1]

\* lines.forEach((line, index) => ...): index is 0-based.
RECURSIVE ForEachLine(_, _)
ForEachLine(lines, index) ==
    IF index >= Len(lines) THEN <<>>
    ELSE LET trimmed == Trim(lines[index + 1])
             value == parseFloat(trimmed)
         IN (IF trimmed # <<>> /\ Accepts(value)
             THEN <<Observation(value, index)>> ELSE <<>>)
            \o ForEachLine(lines, index + 1)

\* The array handed to setParsedTimes at line 12 or line 33.
parseTimeData(input) ==
    IF Trim(input) = <<>> THEN <<>>
    ELSE ForEachLine(Split(input), 0)

(***************************************************************************)
(* getTCritical (lines 49-70)                                              *)
(***************************************************************************)
\* tValues, lines 51-66.  Rows are keyed by df; columns by alpha counted in
\* hundredths (20 is the key 0.20); entries are counted in 1/SCALE units.
tValues ==
    (1 :> (20 :> 3078 @@ 10 :> 6314 @@ 5 :> 12706)) @@
    (2 :> (20 :> 1886 @@ 10 :> 2920 @@ 5 :> 4303)) @@
    (3 :> (20 :> 1638 @@ 10 :> 2353 @@ 5 :> 3182)) @@
    (4 :> (20 :> 1533 @@ 10 :> 2132 @@ 5 :> 2776)) @@
    (5 :> (20 :> 1476 @@ 10 :> 2015 @@ 5 :> 2571)) @@
    (6 :> (20 :> 1440 @@ 10 :> 1943 @@ 5 :> 2447)) @@
    (7 :> (20 :> 1415 @@ 10 :> 1895 @@ 5 :> 2365)) @@
    (8 :> (20 :> 1397 @@ 10 :> 1860 @@ 5 :> 2306)) @@
    (9 :> (20 :> 1383 @@ 10 :> 1833 @@ 5 :> 2262)) @@
    (10 :> (20 :> 1372 @@ 10 :> 1812 @@ 5 :> 2228)) @@
    (15 :> (20 :> 1341 @@ 10 :> 1753 @@ 5 :> 2131)) @@
    (20 :> (20 :> 1325 @@ 10 :> 1725 @@ 5 :> 2086)) @@
    (25 :> (20 :> 1316 @@ 10 :> 1708 @@ 5 :> 2060)) @@
    (30 :> (20 :> 1310 @@ 10 :> 1697 @@ 5 :> 2042))

\* alpha of line 50, counted in hundredths: (100 - confidenceLevel) / 100.
Alpha(level) == 100 - level

\* Faulty variant: the first band ends below 10.
dfKeyStrictTen(df) ==
    IF df <= 30
    THEN (IF df < 10 THEN df
          ELSE IF df <= 15 THEN 15
          ELSE IF df <= 20 THEN 20
          ELSE IF df <= 25 THEN 25
          ELSE 30)
    ELSE 30

\* df_key of line 68.
dfKey(df) ==
    IF df <= 30
    THEN (IF df <= 10 THEN df
          ELSE IF df <= 15 THEN 15
          ELSE IF df <= 20 THEN 20
          ELSE IF df <= 25 THEN 25
          ELSE 30)
    ELSE 30

\* The literal 2.042 of line 69.
Fallback == 2042

\* tValues[df_key][alpha] is a truthy number: the left operand of || at line 69
\* is the value returned.
TableHit(df, level) ==
    /\ dfKey(df) \in DOMAIN tValues
    /\ Alpha(level) \in DOMAIN tValues[dfKey(df)]
    /\ tValues[dfKey(df)][Alpha(level)] # 0

\* Reading a property of undefined (a df_key that is no row of tValues).
TypeError == [k |-> "TypeError", v |-> 0]

\* Faulty variant: line 69 without "|| 2.042".
getTCriticalNoFallback(df, level) ==
    IF dfKey(df) \notin DOMAIN tValues THEN TypeError
    ELSE IF TableHit(df, level) THEN Fin(tValues[dfKey(df)][Alpha(level)])
    ELSE [k |-> "undefined", v |-> 0]

getTCritical(df, level) ==
    IF dfKey(df) \notin DOMAIN tValues THEN TypeError
    ELSE IF TableHit(df, level) THEN Fin(tValues[dfKey(df)][Alpha(level)])
    ELSE Fin(Fallback)

(***************************************************************************)
(* calculateCI (lines 73-123)                                              *)
(***************************************************************************)
\* array.reduce((sum, val) => sum + f(val), init)
RECURSIVE SumFrom(_, _)
SumFrom(xs, sum) ==
    IF xs = <<>> THEN sum ELSE SumFrom(Tail(xs), FAdd(sum, Head(xs)))

NullCI == [null |-> TRUE]

\* Faulty variant: a single observation is let through.
InsufficientSampleBelowOne(pt) == Len(pt) < 1

\* The test of line 74.
InsufficientSample(pt) == Len(pt) < 2

\* Faulty variant: the wrong field of the observation is read.
RawTimesFromLineNumber(pt) == [i \in 1..Len(pt) |-> FInt(pt[i].lineNumber)]

\* parsedTimes.map(t => t.raw), line 76.
RawTimes(pt) == [i \in 1..Len(pt) |-> pt[i].raw]

\* Faulty variant: the sample size taken for the degrees of freedom.
DegreesOfFreedomIsN(n) == n

\* df of line 91.
DegreesOfFreedom(n) == n - 1

\* The body of the useMemo callback.
calculateCI(pt, level) ==
    IF InsufficientSample(pt) THEN NullCI
    ELSE
    LET times == RawTimes(pt)
        n == Len(times)
        logTimes == [i \in 1..n |-> FLog(times[i])]
        logMean == FDiv(SumFrom(logTimes, Fin(0)), FInt(n))
        logVariance ==
            FDiv(SumFrom([i \in 1..n |-> FSquare(FSub(logTimes[i], logMean))], Fin(0)),
                 FInt(n - 1))
        logSD == FSqrt(logVariance)
        sem == FDiv(logSD, FSqrt(FInt(n)))
        df == DegreesOfFreedom(n)
        tCritical == getTCritical(df, level)
        margin == FMul(tCritical, sem)
        logLow == FSub(logMean, margin)
        logHigh == FAdd(logMean, margin)
    IN [null |-> FALSE,
        n |-> n,
        geometricMean |-> FExp(logMean),
        arithmeticMean |-> FDiv(SumFrom(times, Fin(0)), FInt(n)),
        logMean |-> logMean,
        logSD |-> logSD,
        sem |-> sem,
        df |-> df,
        tCritical |-> tCritical,
        margin |-> margin,
        ciLow |-> FExp(logLow),
        ciHigh |-> FExp(logHigh),
        confidenceLevel |-> level]

(***************************************************************************)
(* Component state and event handlers                                      *)
(***************************************************************************)
\* Faulty variant: confidenceLevel left out of the dependencies.
useMemoCIWithoutLevelDep(held, timesChanged, levelChanged, pt, level) ==
    IF timesChanged THEN calculateCI(pt, level) ELSE held

\* useMemo(..., [parsedTimes, confidenceLevel]), lines 73 and 123: the callback
\* runs again in the render that follows a change of a dependency, and the
\* held value is kept otherwise.  timesChanged: setParsedTimes was handed a
\* new array; levelChanged: setConfidenceLevel was handed another number.
useMemoCI(held, timesChanged, levelChanged, pt, level) ==
    IF timesChanged \/ levelChanged THEN calculateCI(pt, level) ELSE held

\* setParsedTimes(times), lines 12 and 33: the state is replaced.
setParsedTimes(old, times) == times

\* The options of the select, lines 149-151.
LevelOptions == {95, 90, 80}

\* handleInputChange (lines 43-46) and the render it causes.
HandleInputChange(text) ==
    /\ rawInput' = text
    /\ parsedTimes' = setParsedTimes(parsedTimes, parseTimeData(text))
    /\ memoCI' = useMemoCI(memoCI, TRUE, FALSE, parsedTimes', confidenceLevel)
    /\ UNCHANGED confidenceLevel

\* onChange of the select (line 146) and the render it causes.
SetConfidenceLevel(level) ==
    /\ confidenceLevel' = level
    /\ memoCI' = useMemoCI(memoCI, FALSE, level # confidenceLevel, parsedTimes, level)
    /\ UNCHANGED <<rawInput, parsedTimes>>

(***************************************************************************)
(* Inputs                                                                  *)
(***************************************************************************)
MaxAppLines == 2
MaxParseLines == 3
MaxIdemLines == 3
MaxDf == 51

Blank == <<>>
Spaces == <<" ">>
Five == <<"5">>
FiftyAndHalf == <<"5", "0", ".", "5">>
Zero == <<"0">>
MinusFive == <<"-", "5">>
Abc == <<"a", "b", "c">>
FiveSeconds == <<"5", " ", "s", "e", "c", "o", "n", "d", "s">>
PaddedSeven == <<" ", "7", "\r">>
Huge == <<"1", "e", "9", "9", "9">>

\* The placeholder of the textarea, lines 178-183.
Placeholder ==
    <<"1", "2", "2", NL, "2", "9", "3", NL, "2", "0", "3", NL, "1", "5", "6", NL,
      "8", "9", NL, ".", ".", ".">>

\* lines.join('\n')
RECURSIVE Join(_)
Join(lines) ==
    IF lines = <<>> THEN <<>>
    ELSE IF Len(lines) = 1 THEN lines[1]
    ELSE lines[1] \o <<NL>> \o Join(Tail(lines))

\* Every text of at most max lines, each line drawn from corpus.
TextsOf(corpus, max) ==
    UNION {{Join(ls) : ls \in [1..n -> corpus]} : n \in 0..max}

AppCorpus == {Blank, Spaces, Five, FiftyAndHalf, PaddedSeven, Abc, InfinityLit}
AppTexts == TextsOf(AppCorpus, MaxAppLines) \cup {Placeholder}

ParseCorpus ==
    {Blank, Spaces, Five, FiftyAndHalf, Zero, MinusFive, Abc, FiveSeconds,
     PaddedSeven, InfinityLit, Huge}
ParseTexts == TextsOf(ParseCorpus, MaxParseLines)

IdemCorpus == {Blank, Five}
IdemTexts ==
    TextsOf(IdemCorpus, MaxIdemLines)
        \cup {Join(<<Five, FiftyAndHalf>>), Join(<<Five, Blank, FiftyAndHalf>>),
              Join(<<FiftyAndHalf, Five>>)}

\* Levels handed to getTCritical directly: the options and others.
LevelInputs == LevelOptions \cup {0, 50, 85, 99, 100}

(***************************************************************************)
(* Specifications                                                          *)
(***************************************************************************)
NoT == [called |-> FALSE]
NoSnap == [taken |-> FALSE]

\* The component after its first render.
Mounted ==
    /\ rawInput = <<>>
    /\ parsedTimes = <<>>
    /\ confidenceLevel = 95
    /\ memoCI = calculateCI(<<>>, 95)

Idle == dfIn = 0 /\ levelIn = 0 /\ tOut = NoT

Init == Mounted /\ Idle /\ pc = "app" /\ snap = NoSnap

TypeChange ==
    /\ \E text \in AppTexts : HandleInputChange(text)
    /\ UNCHANGED <<pc, dfIn, levelIn, tOut, snap>>

SelectChange ==
    /\ \E level \in LevelOptions : SetConfidenceLevel(level)
    /\ UNCHANGED <<pc, dfIn, levelIn, tOut, snap>>

Next == TypeChange \/ SelectChange

\* The component under any sequence of text and level changes.
Spec == Init /\ [][Next]_vars

\* The first text change after mounting, for every text of ParseTexts.
InitParse == Mounted /\ Idle /\ pc = "first" /\ snap = NoSnap

FirstInput ==
    /\ pc = "first"
    /\ \E text \in ParseTexts : HandleInputChange(text)
    /\ pc' = "parsed"
    /\ UNCHANGED <<dfIn, levelIn, tOut, snap>>

SpecParse == InitParse /\ [][FirstInput]_vars

\* One call of getTCritical for every df of 1..MaxDf and level of LevelInputs.
InitT ==
    /\ Mounted /\ snap = NoSnap /\ pc = "call" /\ tOut = NoT
    /\ dfIn \in 1..MaxDf
    /\ levelIn \in LevelInputs

CallGetTCritical ==
    /\ pc = "call"
    /\ tOut' = [called |-> TRUE,
                value |-> getTCritical(dfIn, levelIn),
                fallback |-> ~TableHit(dfIn, levelIn)]
    /\ pc' = "returned"
    /\ UNCHANGED <<rawInput, parsedTimes, confidenceLevel, memoCI, dfIn, levelIn, snap>>

SpecT == InitT /\ [][CallGetTCritical]_vars

\* The component with a history variable that keeps one earlier estimate.
Values(pt) == [i \in 1..Len(pt) |-> pt[i].raw]

TypeChangeIdem ==
    /\ \E text \in IdemTexts : HandleInputChange(text)
    /\ UNCHANGED <<pc, dfIn, levelIn, tOut, snap>>

TakeSnapshot ==
    /\ snap = NoSnap
    /\ memoCI # NullCI
    /\ snap' = [taken |-> TRUE,
                values |-> Values(parsedTimes),
                lineNumbers |-> [i \in 1..Len(parsedTimes) |-> parsedTimes[i].lineNumber],
                level |-> confidenceLevel,
                result |-> memoCI]
    /\ UNCHANGED <<rawInput, parsedTimes, confidenceLevel, memoCI, pc, dfIn, levelIn, tOut>>

NextIdem == TypeChangeIdem \/ SelectChange \/ TakeSnapshot

SpecIdem == Init /\ [][NextIdem]_vars

(***************************************************************************)
(* Properties                                                              *)
(***************************************************************************)
Lines == Split(rawInput)
LineValue(i) == parseFloat(Trim(Lines[i]))
Included(i) == \E j \in 1..Len(parsedTimes) : parsedTimes[j].lineNumber = i
FinitePositive(i) ==
    /\ Trim(Lines[i]) # <<>>
    /\ IsFin(LineValue(i))
    /\ LineValue(i).v > 0

\* C1: after parsing, a line of the text is in the Sample if and only if it
\* is non-empty after trimming and its leading numeric prefix parses to a
\* finite number greater than 0.
C1_ExclusionLaw ==
    pc = "parsed" => \A i \in 1..Len(Lines) : Included(i) <=> FinitePositive(i)

\* The part of C1 the parser does meet: nothing but lines that parse to a
\* number greater than 0 is in the Sample, and every finite one is.
ExclusionLawUpToInfinity ==
    pc = "parsed" =>
        \A i \in 1..Len(Lines) :
            /\ FinitePositive(i) => Included(i)
            /\ Included(i) =>
                   Trim(Lines[i]) # <<>> /\ (FinitePositive(i) \/ LineValue(i) = PInf)

\* C2: the Sample lists the accepted lines in input order, without sorting
\* and without deduplication: lineNumber is strictly increasing, is the
\* 1-based index of the line in the text split on newlines, and raw is the
\* value parsed from that line.
C2_OrderPreserved ==
    pc = "parsed" =>
        /\ \A j \in 1..Len(parsedTimes) :
               /\ parsedTimes[j].lineNumber \in 1..Len(Lines)
               /\ parsedTimes[j].raw = LineValue(parsedTimes[j].lineNumber)
        /\ \A j \in 1..(Len(parsedTimes) - 1) :
               parsedTimes[j].lineNumber < parsedTimes[j + 1].lineNumber
        /\ \A i \in 1..Len(Lines) : FinitePositive(i) => Included(i)

\* A Sample whose first observation comes from the second line (the first
\* was rejected), holding a larger value before a smaller one and the same
\* value twice.
C2_Witness ==
    /\ pc = "parsed"
    /\ Len(parsedTimes) = 2
    /\ parsedTimes[1].lineNumber = 2
    /\ ~Included(1)
    /\ \/ FGt(parsedTimes[1].raw, parsedTimes[2].raw)
       \/ parsedTimes[1].raw = parsedTimes[2].raw

\* C3: the estimator hands back no result for a Sample of 0 or 1
\* observations and a result record for a Sample of 2 or more, at every
\* confidence level.
C3_InsufficientSample ==
    /\ Len(parsedTimes) < 2 => memoCI = NullCI
    /\ Len(parsedTimes) >= 2 => memoCI # NullCI /\ memoCI.n = Len(parsedTimes)

C3_Witness ==
    /\ Len(parsedTimes) = 1
    /\ confidenceLevel = 80
    /\ memoCI = NullCI

\* The bucketing policy as C4 words it.
BucketOf(df) ==
    IF df <= 10 THEN df
    ELSE IF df <= 15 THEN 15
    ELSE IF df <= 20 THEN 20
    ELSE IF df <= 25 THEN 25
    ELSE 30

Returned == pc = "returned"

\* C4: for df >= 1 and a level of {95, 90, 80}, getTCritical returns the table
\* entry at alpha = (100 - level) / 100 and at the key of the bucketing policy;
\* getTCritical(10, 95) = 2.228, (11, 95) = 2.131, (30, 95) = 2.042 and
\* (50, 95) = 2.042.
C4_Bucketing ==
    (Returned /\ levelIn \in {95, 90, 80}) =>
        /\ tOut.value = Fin(tValues[BucketOf(dfIn)][100 - levelIn])
        /\ (dfIn = 10 /\ levelIn = 95) => tOut.value = Fin(2228)
        /\ (dfIn = 11 /\ levelIn = 95) => tOut.value = Fin(2131)
        /\ (dfIn = 30 /\ levelIn = 95) => tOut.value = Fin(2042)
        /\ (dfIn = 50 /\ levelIn = 95) => tOut.value = Fin(2042)

C4_Witness ==
    /\ Returned
    /\ dfIn = 11
    /\ levelIn = 95
    /\ tOut.value = Fin(2131)

\* C5: for df >= 1 and a level outside {95, 90, 80}, getTCritical does not
\* fail and returns the fallback 2.042; for a level inside the set the
\* fallback is never taken.
C5_Fallback ==
    Returned =>
        /\ IsFin(tOut.value)
        /\ levelIn \notin {95, 90, 80} => tOut.fallback /\ tOut.value = Fin(2042)
        /\ levelIn \in {95, 90, 80} => ~tOut.fallback

C5_Witness ==
    /\ Returned
    /\ dfIn = 3
    /\ levelIn = 99
    /\ tOut.fallback
    /\ tOut.value = Fin(2042)

\* C6: every result produced satisfies ciLow <= geometricMean <= ciHigh, the
\* log-space margin being a non-negative number.
C6_Containment ==
    memoCI # NullCI =>
        /\ FLe(Fin(0), memoCI.margin)
        /\ FLe(memoCI.ciLow, memoCI.geometricMean)
        /\ FLe(memoCI.geometricMean, memoCI.ciHigh)

AllFinite(pt) == \A j \in 1..Len(pt) : IsFin(pt[j].raw)

\* C6 for the Samples that hold finite values only.
ContainmentOfFiniteSample ==
    (memoCI # NullCI /\ AllFinite(parsedTimes)) =>
        /\ FLe(Fin(0), memoCI.margin)
        /\ FLe(memoCI.ciLow, memoCI.geometricMean)
        /\ FLe(memoCI.geometricMean, memoCI.ciHigh)

Width(r) == FSub(r.ciHigh, r.ciLow)
TOrdered(df) ==
    /\ FLe(getTCritical(df, 80), getTCritical(df, 90))
    /\ FLe(getTCritical(df, 90), getTCritical(df, 95))

\* C7: for the Sample held, when it has 2 or more observations, the width
\* ciHigh - ciLow does not decrease from level 80 to 90 to 95, and neither
\* does the critical value of its degrees of freedom.
C7_WidthMonotone ==
    Len(parsedTimes) >= 2 =>
        /\ TOrdered(Len(parsedTimes) - 1)
        /\ FLe(Width(calculateCI(parsedTimes, 80)), Width(calculateCI(parsedTimes, 90)))
        /\ FLe(Width(calculateCI(parsedTimes, 90)), Width(calculateCI(parsedTimes, 95)))

\* C7 for the Samples that hold finite values only.
WidthMonotoneOfFiniteSample ==
    (Len(parsedTimes) >= 2 /\ AllFinite(parsedTimes)) =>
        /\ TOrdered(Len(parsedTimes) - 1)
        /\ FLe(Width(calculateCI(parsedTimes, 80)), Width(calculateCI(parsedTimes, 90)))
        /\ FLe(Width(calculateCI(parsedTimes, 90)), Width(calculateCI(parsedTimes, 95)))

\* The critical values are ordered at every df, bucketed or not.
TOrderedAtEveryDf == Returned => TOrdered(dfIn)

SameAsSnapshot ==
    /\ snap.taken
    /\ Values(parsedTimes) = snap.values
    /\ confidenceLevel = snap.level

\* C8: whenever the Sample values in order and the confidence level are those
\* of an estimate made earlier, the estimate held now is identical to it,
\* whatever the line numbers, the inputs in between and the number of
\* recomputations.
C8_Idempotent == SameAsSnapshot => memoCI = snap.result

\* The same values at the same level, read from other lines than before.
C8_Witness ==
    /\ SameAsSnapshot
    /\ memoCI # NullCI
    /\ snap.lineNumbers # [i \in 1..Len(parsedTimes) |-> parsedTimes[i].lineNumber]

\* The Sample of a text, by the wording of C9 and spec 4.1: the lines that,
\* trimmed, are non-empty and parse to a number greater than 0 (line 23
\* admits Infinity), in order.
RECURSIVE SampleFrom(_, _)
SampleFrom(lines, i) ==
    IF i > Len(lines) THEN <<>>
    ELSE LET value == parseFloat(Trim(lines[i]))
         IN (IF Trim(lines[i]) # <<>> /\ FGt(value, Fin(0))
             THEN <<[raw |-> value, lineNumber |-> i]>> ELSE <<>>)
            \o SampleFrom(lines, i + 1)

\* C9: after any sequence of text and level changes the Sample held is the
\* parse of the latest text alone (empty for a text of white space), and
\* the result held is the estimate of that Sample at the level selected
\* last: none below 2 observations, never one of an earlier text or level.
C9_NoStaleState ==
    /\ parsedTimes = SampleFrom(Lines, 1)
    /\ Trim(rawInput) = <<>> => parsedTimes = <<>>
    /\ Len(parsedTimes) < 2 => memoCI = NullCI
    /\ Len(parsedTimes) >= 2 =>
           /\ memoCI # NullCI
           /\ memoCI.confidenceLevel = confidenceLevel
           /\ memoCI.n = Len(parsedTimes)
           /\ memoCI = calculateCI(parsedTimes, confidenceLevel)

\* A result at a level other than the initial one, for a text typed in.
C9_Witness ==
    /\ confidenceLevel = 90
    /\ Len(parsedTimes) = 2
    /\ memoCI # NullCI
    /\ memoCI.confidenceLevel = 90

\* C10: in every result n is the size of the Sample and at least 2, df is
\* n - 1 and at least 1 and keys a row of the table, tCritical is
\* getTCritical(n - 1, confidenceLevel) and the level recorded is the level
\* selected; 5 observations at level 95 give df = 4 and tCritical = 2.776.
C10_ResultFields ==
    memoCI # NullCI =>
        /\ memoCI.n = Len(parsedTimes)
        /\ memoCI.n >= 2
        /\ memoCI.df = memoCI.n - 1
        /\ memoCI.df >= 1
        /\ dfKey(memoCI.df) \in DOMAIN tValues
        /\ memoCI.tCritical # TypeError
        /\ memoCI.tCritical = getTCritical(memoCI.n - 1, confidenceLevel)
        /\ memoCI.confidenceLevel = confidenceLevel
        /\ (memoCI.n = 5 /\ confidenceLevel = 95) =>
               memoCI.df = 4 /\ memoCI.tCritical = Fin(2776)

C10_Witness ==
    /\ memoCI # NullCI
    /\ memoCI.n = 5
    /\ confidenceLevel = 95
    /\ memoCI.tCritical = Fin(2776)
=============================================================================
